---- MODULE Spec2Model ----
(***************************************************************************)
(* A model of AerialLandscapes/ThumbnailGeneration.py: main() resets the   *)
(* thumbnails directory, enumerates the *.mp4 and *.mov files of the video *)
(* directory and calls generate_thumbnail (one ffmpeg invocation) on each. *)
(*                                                                         *)
(* The program is sequential; pc is the position of main().  The file      *)
(* system and the external tool are the environment: which files the video *)
(* directory holds, what the old thumbnails directory holds, how ffmpeg    *)
(* behaves on each video, and whether rmtree / mkdir fail.                 *)
(***************************************************************************)
EXTENDS Integers, Sequences, FiniteSets, TLC

\* Bounds of the model.
MaxVideos == 3      \* at most this many video files in the video directory
MaxRuns == 2        \* SpecRerun runs main() at most this many times

\* Stems of the files the video directory may hold, and a stem that only a
\* previous run's leftover carries.
Stems == {"beach", "clip"}
StaleStems == {"stale"}

\* The two glob patterns of main(), in the order main() concatenates them.
VideoExts == <<"mp4", "mov">>

\* A file of the video directory: Path.stem and the extension.
File(s, e) == [stem |-> s, ext |-> e]
VideoFiles == {File(s, VideoExts[i]) : s \in Stems, i \in 1..Len(VideoExts)}
OtherFiles == {File("beach", "txt")}
NoFile == File("none", "none")

\* How ffmpeg behaves on a video, as a property of the video's bytes:
\*   valid              a frame is decoded at 00:00:05
\*   corrupt            the input cannot be opened: non-zero exit, no output
\*   corrupt_badstderr  as corrupt, and the diagnostics on stderr are not UTF-8
\*   truncated          encoding starts and fails: non-zero exit, the output
\*                      file is left behind partially written
Behaviours == {"valid", "corrupt", "corrupt_badstderr", "truncated"}

VARIABLES
    srcDir,         \* the video directory's listing: a sequence of distinct files
    tool,           \* [video file -> Behaviours]
    toolInstalled,  \* whether "ffmpeg" is on the PATH
    stdinYes,       \* whether ffmpeg's "Overwrite? [y/N]" prompt reads "y" from stdin
    outExists,      \* whether <video_dir>/thumbnails exists
    outFiles,       \* its contents: [artifact name -> content]
    pc,             \* position of main()
    video_files,    \* main()'s list
    idx,            \* position of the for loop in video_files (1-based)
    calls,          \* the video_path of every generate_thumbnail call, in order
    succeeded,      \* the videos whose ffmpeg run exited 0
    partials,       \* the videos whose failed ffmpeg run left a partial file
    log,            \* what was printed
    cleanupFailed,  \* whether shutil.rmtree raised in this run
    madeDir,        \* whether output_dir.mkdir returned in this run
    oldFiles,       \* what the output directory held when this run started
    run,            \* number of the current run of main()
    prev            \* the previous run's final output directory and reset outcome

vars == <<srcDir, tool, toolInstalled, stdinYes, outExists, outFiles, pc,
          video_files, idx, calls, succeeded, partials, log, cleanupFailed,
          madeDir, oldFiles, run, prev>>

env == <<srcDir, tool, toolInstalled, stdinYes>>
loopVars == <<video_files, idx, calls, succeeded, partials>>
runVars == <<oldFiles, run, prev>>

----------------------------------------------------------------------------
\* Helpers

Range(s) == {s[i] : i \in DOMAIN s}

EmptyDir == [n \in {} |-> n]

Put(fn, k, v) == [x \in (DOMAIN fn) \cup {k} |-> IF x = k THEN v ELSE fn[x]]

Restrict(fn, S) == [x \in S |-> fn[x]]

\* All orders in which a listing can return the files of S.
Orders(S) == {s \in [1..Cardinality(S) -> S] : Range(s) = S}

Msg(m, n) == [msg |-> m, n |-> n]

Stale == [kind |-> "stale", src |-> NoFile]
Frame(f) == [kind |-> "frame", src |-> f]
Partial(f) == [kind |-> "partial", src |-> f]

----------------------------------------------------------------------------
\* Variants of thumbnail_name: the name built from video_path.name (stem and
\* extension), and the name built without the stem.
thumbnail_name_from_name(video_path) ==
    [stem |-> video_path.stem,
     suffix |-> IF video_path.ext = "mp4" THEN ".mp4_thumbnail.jpg"
                                          ELSE ".mov_thumbnail.jpg"]

thumbnail_name_without_stem(video_path) == [stem |-> "", suffix |-> "thumbnail.jpg"]

\* generate_thumbnail: thumbnail_name = f"{video_path.stem}_thumbnail.jpg"
thumbnail_name(video_path) == [stem |-> video_path.stem, suffix |-> "_thumbnail.jpg"]

\* video_dir.glob("*.<ext>"): the files of the listing with that extension,
\* in listing order.
Glob(listing, e) == SelectSeq(listing, LAMBDA f : f.ext = e)

\* list(video_dir.glob("*.mp4")) + list(video_dir.glob("*.mov"))
Enumerate(listing) == Glob(listing, VideoExts[1]) \o Glob(listing, VideoExts[2])

\* subprocess.run(cmd, check=True, capture_output=True) for
\*   ffmpeg -i <video_path> -ss 00:00:05 -vframes 1 -vf scale=1920:1080 -q:v 2 <thumbnail_path>
\* The command carries no -y: when the output file exists ffmpeg asks on
\* stderr (captured) and reads the answer from the inherited stdin; without a
\* "y" there it exits non-zero and leaves the file as it is.
\* An exit status of 0 is taken to come with the output file written; a
\* non-zero exit raises CalledProcessError (check=True); a missing ffmpeg
\* makes run() raise FileNotFoundError before any process starts.
\* Result: how run() ends and what the output directory then holds.
RunTool(video_path, files) ==
    LET name == thumbnail_name(video_path)
        refused == name \in DOMAIN files /\ ~stdinYes
    IN  IF ~toolInstalled
        THEN [end |-> "OSError", files |-> files]
        ELSE IF tool[video_path] = "corrupt"
        THEN [end |-> "CalledProcessError", files |-> files]
        ELSE IF tool[video_path] = "corrupt_badstderr"
        THEN [end |-> "CalledProcessErrorBadStderr", files |-> files]
        ELSE IF refused
        THEN [end |-> "CalledProcessError", files |-> files]
        ELSE IF tool[video_path] = "truncated"
        THEN [end |-> "CalledProcessError",
              files |-> Put(files, name, Partial(video_path))]
        ELSE [end |-> "ok", files |-> Put(files, name, Frame(video_path))]

----------------------------------------------------------------------------
\* The states main() can start in.

Listings ==
    UNION {
      UNION {
        {mov \o oth \o mp4 :
            mov \in Orders({f \in V : f.ext = "mov"}),
            mp4 \in Orders({f \in V : f.ext = "mp4"})}
        : oth \in {<<>>} \cup {<<f>> : f \in OtherFiles}}
      : V \in {W \in SUBSET VideoFiles : Cardinality(W) <= MaxVideos}}

OldNames == {thumbnail_name(File(s, "mp4")) : s \in Stems \cup StaleStems}

Init ==
    /\ srcDir \in Listings
    /\ toolInstalled \in BOOLEAN
    /\ tool \in [{f \in Range(srcDir) : f \in VideoFiles} -> Behaviours]
    /\ toolInstalled = FALSE => \A f \in DOMAIN tool : tool[f] = "valid"
    /\ stdinYes \in BOOLEAN
    /\ toolInstalled = FALSE => stdinYes = FALSE
    /\ outExists \in BOOLEAN
    /\ outFiles \in {[n \in S |-> Stale] : S \in SUBSET OldNames}
    /\ outExists = FALSE => outFiles = EmptyDir
    /\ pc = "cleanup"
    /\ video_files = <<>>
    /\ idx = 0
    /\ calls = <<>>
    /\ succeeded = {}
    /\ partials = {}
    /\ log = <<>>
    /\ cleanupFailed = FALSE
    /\ madeDir = FALSE
    /\ oldFiles = outFiles
    /\ run = 1
    /\ prev = [exists |-> FALSE, files |-> EmptyDir, reset |-> FALSE]

----------------------------------------------------------------------------
\* cleanup_thumbnails(output_dir)

\* output_dir.exists() is false: nothing is done, nothing is printed.
CleanupAbsent ==
    /\ pc = "cleanup"
    /\ ~outExists
    /\ pc' = "mkdir"
    /\ UNCHANGED <<env, outExists, outFiles, loopVars, log, cleanupFailed,
                   madeDir, runVars>>

\* Variant of CleanupRemoved: shutil.rmtree(output_dir, ignore_errors=True)
\* returns without raising whatever it could not delete.
CleanupRemovedIgnoringErrors ==
    /\ pc = "cleanup"
    /\ outExists
    /\ \E kept \in SUBSET (DOMAIN outFiles) :
          outFiles' = Restrict(outFiles, kept)
    /\ log' = log \o <<Msg("cleaning", 0), Msg("removed", 0)>>
    /\ pc' = "mkdir"
    /\ UNCHANGED <<env, outExists, loopVars, cleanupFailed, madeDir, runVars>>

\* shutil.rmtree(output_dir) returns: the directory and its contents are gone.
CleanupRemoved ==
    /\ pc = "cleanup"
    /\ outExists
    /\ outExists' = FALSE
    /\ outFiles' = EmptyDir
    /\ log' = log \o <<Msg("cleaning", 0), Msg("removed", 0)>>
    /\ pc' = "mkdir"
    /\ UNCHANGED <<env, loopVars, cleanupFailed, madeDir, runVars>>

\* shutil.rmtree(output_dir) raises (permission denied, file in use): the
\* directory remains with whatever rmtree had not yet deleted; the except
\* clause prints the error and cleanup_thumbnails returns.
CleanupError ==
    /\ pc = "cleanup"
    /\ outExists
    /\ \E kept \in SUBSET (DOMAIN outFiles) :
          outFiles' = Restrict(outFiles, kept)
    /\ cleanupFailed' = TRUE
    /\ log' = log \o <<Msg("cleaning", 0), Msg("cleanup_error", 0)>>
    /\ pc' = "mkdir"
    /\ UNCHANGED <<env, outExists, loopVars, madeDir, runVars>>

----------------------------------------------------------------------------
\* output_dir.mkdir(exist_ok=True)

\* Variant of MkdirOk: the mkdir call is left out.
MkdirLeftOut ==
    /\ pc = "mkdir"
    /\ madeDir' = TRUE
    /\ pc' = "glob"
    /\ UNCHANGED <<env, outExists, outFiles, loopVars, log, cleanupFailed, runVars>>

\* The directory exists (exist_ok) or is created empty.
MkdirOk ==
    /\ pc = "mkdir"
    /\ outExists' = TRUE
    /\ madeDir' = TRUE
    /\ pc' = "glob"
    /\ UNCHANGED <<env, outFiles, loopVars, log, cleanupFailed, runVars>>

\* The directory is missing and cannot be created (the video directory is
\* missing or not writable): mkdir raises outside any try and main() dies.
MkdirRaises ==
    /\ pc = "mkdir"
    /\ ~outExists
    /\ pc' = "crashed"
    /\ UNCHANGED <<env, outExists, outFiles, loopVars, log, cleanupFailed,
                   madeDir, runVars>>

----------------------------------------------------------------------------
\* video_files = list(glob("*.mp4")) + list(glob("*.mov"))

\* if not video_files: print, return
GlobEmpty ==
    /\ pc = "glob"
    /\ Enumerate(srcDir) = <<>>
    /\ video_files' = <<>>
    /\ log' = Append(log, Msg("no_files_found", 0))
    /\ pc' = "done"
    /\ UNCHANGED <<env, outExists, outFiles, idx, calls, succeeded, partials,
                   cleanupFailed, madeDir, runVars>>

GlobFound ==
    /\ pc = "glob"
    /\ Enumerate(srcDir) # <<>>
    /\ video_files' = Enumerate(srcDir)
    /\ idx' = 1
    /\ log' = log \o <<Msg("found", Len(Enumerate(srcDir))), Msg("saving", 0)>>
    /\ pc' = "loop"
    /\ UNCHANGED <<env, outExists, outFiles, calls, succeeded, partials,
                   cleanupFailed, madeDir, runVars>>

----------------------------------------------------------------------------
\* One iteration of "for video_path in video_files:
\*                       generate_thumbnail(video_path, output_dir)"

InLoop == pc = "loop" /\ idx <= Len(video_files)

\* ffmpeg exits 0: the success line is printed.
ExtractOk ==
    /\ InLoop
    /\ LET f == video_files[idx]
           r == RunTool(f, outFiles)
       IN  /\ r.end = "ok"
           /\ outFiles' = r.files
           /\ calls' = Append(calls, f)
           /\ succeeded' = succeeded \cup {f}
           /\ log' = log \o <<Msg("processing", idx), Msg("generated", idx)>>
    /\ idx' = idx + 1
    /\ UNCHANGED <<env, outExists, pc, video_files, partials, cleanupFailed,
                   madeDir, runVars>>

\* Variant of ExtractToolError: the handler ends the loop (break) after
\* printing.
ExtractToolErrorBreaks ==
    /\ InLoop
    /\ LET f == video_files[idx]
           r == RunTool(f, outFiles)
       IN  /\ r.end = "CalledProcessError"
           /\ outFiles' = r.files
           /\ calls' = Append(calls, f)
           /\ partials' = IF r.files # outFiles THEN partials \cup {f} ELSE partials
           /\ log' = log \o <<Msg("processing", idx), Msg("tool_error", idx),
                              Msg("stderr", idx)>>
    /\ idx' = Len(video_files) + 1
    /\ UNCHANGED <<env, outExists, pc, video_files, succeeded, cleanupFailed,
                   madeDir, runVars>>

\* except subprocess.CalledProcessError: the error and ffmpeg's stderr are
\* printed; nothing is removed from the output directory.
ExtractToolError ==
    /\ InLoop
    /\ LET f == video_files[idx]
           r == RunTool(f, outFiles)
       IN  /\ r.end = "CalledProcessError"
           /\ outFiles' = r.files
           /\ calls' = Append(calls, f)
           /\ partials' = IF r.files # outFiles THEN partials \cup {f} ELSE partials
           /\ log' = log \o <<Msg("processing", idx), Msg("tool_error", idx),
                              Msg("stderr", idx)>>
    /\ idx' = idx + 1
    /\ UNCHANGED <<env, outExists, pc, video_files, succeeded, cleanupFailed,
                   madeDir, runVars>>

\* except subprocess.CalledProcessError, and e.stderr.decode() raises
\* UnicodeDecodeError inside the handler: no sibling except clause catches
\* it, it leaves generate_thumbnail and main().
ExtractToolErrorLogRaises ==
    /\ InLoop
    /\ LET f == video_files[idx]
           r == RunTool(f, outFiles)
       IN  /\ r.end = "CalledProcessErrorBadStderr"
           /\ outFiles' = r.files
           /\ calls' = Append(calls, f)
           /\ log' = log \o <<Msg("processing", idx), Msg("tool_error", idx)>>
    /\ pc' = "crashed"
    /\ UNCHANGED <<env, outExists, video_files, idx, succeeded, partials,
                   cleanupFailed, madeDir, runVars>>

\* except Exception (ffmpeg is not installed: FileNotFoundError from run()).
ExtractUnexpected ==
    /\ InLoop
    /\ LET f == video_files[idx]
           r == RunTool(f, outFiles)
       IN  /\ r.end = "OSError"
           /\ outFiles' = r.files
           /\ calls' = Append(calls, f)
           /\ log' = log \o <<Msg("processing", idx), Msg("unexpected_error", idx),
                              Msg("error_text", idx)>>
    /\ idx' = idx + 1
    /\ UNCHANGED <<env, outExists, pc, video_files, succeeded, partials,
                   cleanupFailed, madeDir, runVars>>

\* After the loop: the two summary lines; the count printed is len(video_files).
Summary ==
    /\ pc = "loop"
    /\ idx > Len(video_files)
    /\ log' = log \o <<Msg("complete", 0), Msg("generated_count", Len(video_files))>>
    /\ pc' = "done"
    /\ UNCHANGED <<env, outExists, outFiles, loopVars, cleanupFailed, madeDir,
                   runVars>>

----------------------------------------------------------------------------
\* The script is run again on the same video directory.
Ended == pc \in {"done", "crashed"}

Rerun ==
    /\ Ended
    /\ run < MaxRuns
    /\ run' = run + 1
    /\ prev' = [exists |-> outExists, files |-> outFiles,
                reset |-> madeDir /\ ~cleanupFailed]
    /\ pc' = "cleanup"
    /\ video_files' = <<>>
    /\ idx' = 0
    /\ calls' = <<>>
    /\ succeeded' = {}
    /\ partials' = {}
    /\ log' = <<>>
    /\ cleanupFailed' = FALSE
    /\ madeDir' = FALSE
    /\ oldFiles' = outFiles
    /\ UNCHANGED <<env, outExists, outFiles>>

----------------------------------------------------------------------------
Next ==
    \/ CleanupAbsent
    \/ CleanupRemoved
    \/ CleanupError
    \/ MkdirOk
    \/ MkdirRaises
    \/ GlobEmpty
    \/ GlobFound
    \/ ExtractOk
    \/ ExtractToolError
    \/ ExtractToolErrorLogRaises
    \/ ExtractUnexpected
    \/ Summary

Spec == Init /\ [][Next]_vars

\* Every step of main() is taken and every ffmpeg invocation returns.
FairSpec == Spec /\ WF_vars(Next)

NextRerun == Next \/ Rerun

SpecRerun == Init /\ [][NextRerun]_vars

----------------------------------------------------------------------------
\* Vocabulary of the properties.

\* The artifact the specification names for a stem: <stem>_thumbnail.jpg.
Artifact(s) == [stem |-> s, suffix |-> "_thumbnail.jpg"]

Candidates == Range(video_files)

\* What the batch stage printed: everything but cleanup_thumbnails' lines.
BatchLog ==
    SelectSeq(log, LAMBDA m : m.msg \notin {"cleaning", "removed", "cleanup_error"})

NoDuplicates(s) == \A i, j \in DOMAIN s : s[i] = s[j] => i = j

IsPrefix(s, t) == Len(s) <= Len(t) /\ \A i \in DOMAIN s : s[i] = t[i]

\* list order of main(): every *.mp4 candidate precedes every *.mov candidate.
Mp4BeforeMov(s) ==
    \A i, j \in DOMAIN s : (s[i].ext = "mov" /\ s[j].ext = "mp4") => j < i

\* The reset of this run went through: rmtree did not raise, mkdir returned.
ResetOk == madeDir /\ ~cleanupFailed

----------------------------------------------------------------------------
\* C1: in every run with a non-empty candidate list, once the run has ended
\* the generate_thumbnail calls are exactly the candidate list (all *.mp4,
\* then all *.mov), each candidate once, whatever earlier extractions did.
C1_AllCandidatesAttempted ==
    (Ended /\ video_files # <<>>) =>
        /\ calls = video_files
        /\ Mp4BeforeMov(calls)
        /\ NoDuplicates(calls)

\* C2: no error terminates the process: main() never ends by an uncaught
\* exception.
C2_NoUncaughtError == pc # "crashed"

\* C3 (as claimed): when the first extraction is invoked the output directory
\* exists and holds no file left over from before the run.
C3_FreshAtFirstExtraction ==
    (pc = "loop" /\ calls = <<>>) => (outExists /\ outFiles = EmptyDir)

\* C3 (amended): when the first extraction is invoked the output directory
\* exists, and it is empty in every run in which rmtree did not raise.
C3_FreshUnlessCleanupFailed ==
    (pc = "loop" /\ calls = <<>>) =>
        /\ outExists
        /\ ~cleanupFailed => outFiles = EmptyDir

C3_Witness ==
    /\ pc = "loop"
    /\ calls = <<>>
    /\ ~cleanupFailed
    /\ oldFiles # EmptyDir

\* C4 (as claimed): after a complete run in which every extraction succeeded
\* the output directory holds <stem>_thumbnail.jpg for every candidate stem
\* and nothing else.
C4_ExactOutputSet ==
    (pc = "done" /\ Candidates \subseteq succeeded) =>
        DOMAIN outFiles = {Artifact(f.stem) : f \in Candidates}

\* C4 (amended): the same after a complete run in which rmtree did not raise,
\* and every file is then a frame of a candidate of that stem.
C4_ExactOutputSetUnlessCleanupFailed ==
    (pc = "done" /\ Candidates \subseteq succeeded /\ ~cleanupFailed) =>
        /\ DOMAIN outFiles = {Artifact(f.stem) : f \in Candidates}
        /\ \A n \in DOMAIN outFiles :
              /\ outFiles[n].kind = "frame"
              /\ outFiles[n].src \in Candidates
              /\ outFiles[n].src.stem = n.stem

C4_Witness ==
    /\ pc = "done"
    /\ Candidates \subseteq succeeded
    /\ ~cleanupFailed
    /\ Cardinality(Candidates) >= 2
    /\ Artifact("stale") \in DOMAIN oldFiles
    /\ \E f \in Candidates : Artifact(f.stem) \in DOMAIN oldFiles

\* C5 (as claimed): at the end of a run the number of artifact files equals
\* the number of extractions that succeeded.
C5_ArtifactCountEqualsSuccessCount ==
    Ended => Cardinality(DOMAIN outFiles) = Cardinality(succeeded)

\* C5 (amended): at the end of a run in which rmtree did not raise and no
\* failed extraction left a partial file, the number of artifact files equals
\* the number of distinct stems among the extractions that succeeded.
C5_ArtifactCountEqualsSucceededStems ==
    (Ended /\ ~cleanupFailed /\ partials = {}) =>
        /\ Cardinality(DOMAIN outFiles) = Cardinality({f.stem : f \in succeeded})
        /\ DOMAIN outFiles = {Artifact(f.stem) : f \in succeeded}

C5_Witness ==
    /\ pc = "done"
    /\ ~cleanupFailed
    /\ partials = {}
    /\ oldFiles # EmptyDir
    /\ Cardinality(succeeded) = 2
    /\ Len(calls) = 3
    /\ Cardinality({f.stem : f \in succeeded}) = 2

\* C6: in a run over a video directory without *.mp4 and *.mov files main()
\* returns normally, having invoked no extraction, created no file in the
\* output directory and printed "no files found" as the only batch output.
C6_EmptySourceRun ==
    (Ended /\ Enumerate(srcDir) = <<>>) =>
        /\ pc = "done"
        /\ calls = <<>>
        /\ DOMAIN outFiles \subseteq DOMAIN oldFiles
        /\ BatchLog = <<Msg("no_files_found", 0)>>

\* C7: when two candidates share a stem and the first wrote its artifact, the
\* extraction of the second (a valid video) succeeds and the one artifact of
\* that stem is the frame of the second.
C7_SecondOverwritesFirst ==
    pc = "done" =>
        \A i, j \in DOMAIN video_files :
            (/\ i < j
             /\ video_files[i].stem = video_files[j].stem
             /\ video_files[i] \in succeeded
             /\ tool[video_files[j]] = "valid") =>
                /\ video_files[j] \in succeeded
                /\ outFiles[Artifact(video_files[j].stem)] = Frame(video_files[j])

\* C8 (as claimed): at the end of a second run on the unchanged video
\* directory the output directory is what it was at the end of the first.
C8_SecondRunSameOutput ==
    (run >= 2 /\ Ended) => (outExists = prev.exists /\ outFiles = prev.files)

\* C8 (amended): the same when in both runs the reset went through (rmtree
\* did not raise and mkdir returned).
C8_SecondRunSameOutputAfterReset ==
    (run >= 2 /\ Ended /\ ResetOk /\ prev.reset) =>
        (outExists = prev.exists /\ outFiles = prev.files)

C8_Witness ==
    /\ run = 2
    /\ pc = "done"
    /\ ResetOk
    /\ prev.reset
    /\ Cardinality(DOMAIN outFiles) >= 2
    /\ Len(calls) > Cardinality(succeeded)

\* C9 (as claimed): no two candidates of a run get the same artifact name.
C9_UniqueArtifactNames ==
    \A i, j \in DOMAIN video_files :
        i # j => thumbnail_name(video_files[i]) # thumbnail_name(video_files[j])

\* C9 (amended): two candidates of a run get the same artifact name exactly
\* when they share a stem, and then they differ in extension: names are
\* unique among candidates of distinct stems and within an extension group.
C9_UniqueArtifactNamesPerStem ==
    \A i, j \in DOMAIN video_files :
        i # j =>
            /\ thumbnail_name(video_files[i]) = thumbnail_name(video_files[j])
                  <=> video_files[i].stem = video_files[j].stem
            /\ video_files[i].stem = video_files[j].stem
                  => video_files[i].ext # video_files[j].ext

C9_Witness ==
    /\ pc = "loop"
    /\ Len(video_files) = 3
    /\ \E i, j \in DOMAIN video_files :
          i # j /\ video_files[i].stem = video_files[j].stem

====
